---- MODULE Spec2Model ----
(***************************************************************************)
(* A model of src/es6-module-utils.ts: the export name registry            *)
(* (getOrSetBundleModuleExportName), the collection of a module's export   *)
(* names (getModuleExportNames), the reservation pass                      *)
(* (reserveBundleModuleExportNames) and the ProjectConverter               *)
(* (convertPackage, convertDocument, getResults).                          *)
(*                                                                         *)
(* JavaScript strings are sequences of one-character strings, so that the  *)
(* regular expressions of the source are computed character by character.  *)
(***************************************************************************)
EXTENDS Integers, Sequences, FiniteSets, TLC

VARIABLES
    bundledExports, \* bundle -> (moduleUrl -> (name -> assigned name))
    lastCall,       \* the last getOrSetBundleModuleExportName call and its result
    hung,           \* TRUE once a call entered a loop it never leaves
    resolves,       \* number of registry calls made so far
    runtime,        \* what console.assert does on a falsy value on this platform
    scanned,        \* documents the ProjectScanner has scanned
    results,        \* ProjectConverter.results, in Map insertion order
    convCalls,      \* document -> number of times the rewriting capability ran
    lastOp,         \* the last ProjectConverter call and its outcome
    project,        \* the records the rewriting capability produces per document
    manifest,       \* bundle -> its URL, type and files
    analysis,       \* URL -> the module the analyzer parsed from it
    reserve         \* where reserveBundleModuleExportNames stands

vars == <<bundledExports, lastCall, hung, resolves, runtime, scanned, results,
          convCalls, lastOp, project, manifest, analysis, reserve>>

reserveVars == <<manifest, analysis, reserve>>

registryVars == <<bundledExports, lastCall, hung, resolves>>

converterVars == <<runtime, scanned, results, convCalls, lastOp, project>>

----------------------------------------------------------------------------
(* Characters and JavaScript string primitives                             *)

LowerSeq == <<"a","b","c","d","e","f","g","h","i","j","k","l","m",
              "n","o","p","q","r","s","t","u","v","w","x","y","z">>

UpperSeq == <<"A","B","C","D","E","F","G","H","I","J","K","L","M",
              "N","O","P","Q","R","S","T","U","V","W","X","Y","Z">>

DigitSeq == <<"0","1","2","3","4","5","6","7","8","9">>

Range(s) == {s[i] : i \in DOMAIN s}

Lower == Range(LowerSeq)

Upper == Range(UpperSeq)

Digit == Range(DigitSeq)

\* [a-z0-9_] under the i flag
WordChar == Lower \cup Upper \cup Digit \cup {"_"}

\* [a-z0-9_] without the i flag
ExtChar == Lower \cup Digit \cup {"_"}

\* String.prototype.toUpperCase on one ASCII character
ToUpper(c) ==
    IF c \in Lower THEN UpperSeq[CHOOSE i \in DOMAIN LowerSeq : LowerSeq[i] = c]
    ELSE c

DigitValue(c) == (CHOOSE i \in DOMAIN DigitSeq : DigitSeq[i] = c) - 1

\* `${n}` for a non-negative integer n
RECURSIVE NumberToString(_)
NumberToString(n) ==
    IF n < 10 THEN <<DigitSeq[n + 1]>>
    ELSE NumberToString(n \div 10) \o <<DigitSeq[(n % 10) + 1]>>

\* A string of decimal digits without its leading zeros ("0" for zero)
RECURSIVE StripLeadingZeros(_)
StripLeadingZeros(digits) ==
    IF Len(digits) > 1 /\ digits[1] = "0" THEN StripLeadingZeros(Tail(digits))
    ELSE digits

\* The decimal digits of the integer after the one written by the digits
RECURSIVE DecimalSucc(_)
DecimalSucc(digits) ==
    IF digits = <<>> THEN <<"1">>
    ELSE LET n == Len(digits)
             front == SubSeq(digits, 1, n - 1)
         IN  IF digits[n] = "9" THEN DecimalSucc(front) \o <<"0">>
             ELSE front \o <<DigitSeq[DigitValue(digits[n]) + 2]>>

\* Order of two digit strings without leading zeros and of equal length
RECURSIVE DigitsLess(_, _)
DigitsLess(a, b) ==
    /\ a # <<>>
    /\ \/ DigitValue(a[1]) < DigitValue(b[1])
       \/ a[1] = b[1] /\ DigitsLess(Tail(a), Tail(b))

\* Order of two non-negative integers written without leading zeros
DecimalLess(a, b) ==
    \/ Len(a) < Len(b)
    \/ Len(a) = Len(b) /\ DigitsLess(a, b)

\* 2^53 = 9007199254740992: from here on a Number no longer holds every
\* integer, and 2^53 + 1 rounds back to 2^53
TwoTo53 ==
    <<"9","0","0","7","1","9","9","2","5","4","7","4","0","9","9","2">>

\* (v) => `${parseInt(v) + 1}` on a string of decimal digits, in IEEE 754
\* double arithmetic; integers above 2^53 are outside the model's inputs
JsIncrement(v) ==
    LET digits == StripLeadingZeros(v)
    IN  CASE DecimalLess(digits, TwoTo53) -> DecimalSucc(digits)
          [] digits = TwoTo53 -> digits

\* Length of the longest suffix of s made of decimal digits
RECURSIVE TrailingDigits(_)
TrailingDigits(s) ==
    IF s = <<>> \/ s[Len(s)] \notin Digit THEN 0
    ELSE 1 + TrailingDigits(SubSeq(s, 1, Len(s) - 1))

\* The characters U+0060 (grave accent) and U+0027 (apostrophe); the grave
\* accent is spelled out because it cannot be written inside a string here.
Backquote == "backquote"

Apostrophe == "'"

\* The replacement-string patterns of String.prototype.replace for a regular
\* expression without capture groups: "$$" is a dollar sign, "$&" the match,
\* "$" + grave accent the text before the match, "$" + apostrophe the text
\* after it; any other "$" stands for itself.
RECURSIVE GetSubstitution(_, _, _, _)
GetSubstitution(replacement, matched, before, after) ==
    IF replacement = <<>> THEN <<>>
    ELSE IF replacement[1] = "$" /\ Len(replacement) >= 2
              /\ replacement[2] \in {"$", "&", Backquote, Apostrophe}
         THEN (CASE replacement[2] = "$" -> <<"$">>
                 [] replacement[2] = "&" -> matched
                 [] replacement[2] = Backquote -> before
                 [] replacement[2] = Apostrophe -> after)
              \o GetSubstitution(SubSeq(replacement, 3, Len(replacement)),
                                 matched, before, after)
         ELSE <<replacement[1]>>
              \o GetSubstitution(Tail(replacement), matched, before, after)

----------------------------------------------------------------------------
(* Helpers imported by the source                                          *)

\* getFileName: the text after the last "/" of the URL
RECURSIVE getFileName(_)
getFileName(url) ==
    IF url = <<>> THEN <<>>
    ELSE IF url[Len(url)] = "/" THEN <<>>
    ELSE getFileName(SubSeq(url, 1, Len(url) - 1)) \o <<url[Len(url)]>>

\* camelCase: a dash followed by a lower-case letter becomes that letter in
\* upper case
RECURSIVE camelCase(_)
camelCase(text) ==
    IF text = <<>> THEN <<>>
    ELSE IF text[1] = "-" /\ Len(text) >= 2 /\ text[2] \in Lower
         THEN <<ToUpper(text[2])>> \o camelCase(SubSeq(text, 3, Len(text)))
         ELSE <<text[1]>> \o camelCase(Tail(text))

----------------------------------------------------------------------------
(* Export name registry: getOrSetBundleModuleExportName                    *)

\* new Map(): no keys
EmptyMap == [k \in {} |-> <<>>]

\* Map.prototype.set
MapSet(map, key, value) ==
    [k \in (DOMAIN map) \cup {key} |-> IF k = key THEN value ELSE map[k]]

\* .replace(/\.[a-z0-9_]+$/, ''): drop a trailing extension
RECURSIVE ExtensionStart(_, _)
ExtensionStart(fileName, i) ==
    IF i < 1 \/ i > Len(fileName) THEN 0
    ELSE IF fileName[i] = "." THEN (IF i < Len(fileName) THEN i ELSE 0)
    ELSE IF fileName[i] \in ExtChar THEN ExtensionStart(fileName, i - 1)
    ELSE 0

StripExtension(fileName) ==
    LET i == ExtensionStart(fileName, Len(fileName))
    IN  IF i = 0 THEN fileName ELSE SubSeq(fileName, 1, i - 1)

\* Mutant of moduleFileNameIdentifier: the '$' is not prepended
moduleFileNameIdentifierBare(moduleUrl) ==
    camelCase(StripExtension(getFileName(moduleUrl)))

\* '$' + camelCase(getFileName(moduleUrl).replace(/\.[a-z0-9_]+$/, ''))
moduleFileNameIdentifier(moduleUrl) ==
    <<"$">> \o camelCase(StripExtension(getFileName(moduleUrl)))

DefaultName == <<"d","e","f","a","u","l","t">>

StarName == <<"*">>

DefaultSuffix == <<"D","e","f","a","u","l","t">>

\* .replace(/^default$/, `${moduleFileNameIdentifier}Default`)
ReplaceDefault(name, prefix) ==
    IF name = DefaultName
    THEN GetSubstitution(prefix \o DefaultSuffix, name, <<>>, <<>>)
    ELSE name

\* .replace(/^\*$/, moduleFileNameIdentifier)
ReplaceStar(name, prefix) ==
    IF name = StarName THEN GetSubstitution(prefix, name, <<>>, <<>>) ELSE name

\* .replace(/[^a-z0-9_]/gi, '$')
Sanitize(name) ==
    [i \in 1..Len(name) |-> IF name[i] \in WordChar THEN name[i] ELSE "$"]

\* The trial name of lines 37-43
TrialName(moduleUrl, name) ==
    LET prefix == moduleFileNameIdentifier(moduleUrl)
    IN  Sanitize(ReplaceStar(ReplaceDefault(name, prefix), prefix))

\* Mutant of IsFree: `some` in place of `every`
IsFreeInSomeModule(exports, trialName) ==
    \E m \in DOMAIN exports :
        \A n \in DOMAIN exports[m] : exports[m][n] # trialName

\* [...bundledExports.values()].every(
\*     (map) => [...map.values()].indexOf(trialName) === -1)
IsFree(exports, trialName) ==
    \A m \in DOMAIN exports :
        \A n \in DOMAIN exports[m] : exports[m][n] # trialName

\* trialName.match(/\$[0-9]+$/)
HasCounterSuffix(trialName) ==
    LET d == TrailingDigits(trialName)
    IN  d > 0 /\ d < Len(trialName) /\ trialName[Len(trialName) - d] = "$"

\* Mutant of NextTrialName: `$1` is appended whatever the name ends in
NextTrialNameAppending(trialName) == trialName \o <<"$", "1">>

\* Lines 49-53: the next candidate after a taken trial name
NextTrialName(trialName) ==
    IF HasCounterSuffix(trialName)
    THEN LET d == TrailingDigits(trialName)
             n == Len(trialName)
         IN  SubSeq(trialName, 1, n - d)
             \o JsIncrement(SubSeq(trialName, n - d + 1, n))
    ELSE trialName \o <<"$", "1">>

\* The while loop of lines 44-55: the name it leaves in exportName, and the
\* empty string when it never leaves. It never leaves when the accepted trial
\* name is empty (`!exportName` stays true), and when a taken trial name is
\* its own next candidate.
RECURSIVE FirstFreeName(_, _)
FirstFreeName(exports, trialName) ==
    IF IsFree(exports, trialName) THEN trialName
    ELSE IF NextTrialName(trialName) = trialName THEN <<>>
    ELSE FirstFreeName(exports, NextTrialName(trialName))

\* Mutant of IsResolved: the memoized entry is never found
NeverResolved(moduleExports, name) == FALSE

\* moduleExports.get(name) is a non-empty string (lines 35-36)
IsResolved(moduleExports, name) ==
    name \in DOMAIN moduleExports /\ moduleExports[name] # <<>>

\* Mutant of GetOrSet: the module's map is replaced by a new one on every
\* call, as without the test of line 31
GetOrSetFreshModule(exports, moduleUrl, name) ==
    LET withModule == MapSet(exports, moduleUrl, EmptyMap)
        exportName == FirstFreeName(withModule, TrialName(moduleUrl, name))
    IN  IF exportName = <<>>
        THEN [exports |-> withModule, returns |-> FALSE,
              memoized |-> FALSE, value |-> <<>>]
        ELSE [exports |-> MapSet(withModule, moduleUrl,
                            MapSet(EmptyMap, name, exportName)),
              returns |-> TRUE, memoized |-> FALSE, value |-> exportName]

\* One call of getOrSetBundleModuleExportName on a bundle's bundledExports:
\* the map as the call leaves it, whether the call returns, whether it found
\* a memoized entry, and what it returns.
\* The call never returns when the loop never leaves.
GetOrSet(exports, moduleUrl, name) ==
    LET withModule ==
            IF moduleUrl \in DOMAIN exports THEN exports
            ELSE MapSet(exports, moduleUrl, EmptyMap)
        moduleExports == withModule[moduleUrl]
    IN  IF IsResolved(moduleExports, name)
        THEN [exports |-> withModule, returns |-> TRUE, memoized |-> TRUE,
              value |-> moduleExports[name]]
        ELSE LET trialName == TrialName(moduleUrl, name)
                 exportName == FirstFreeName(withModule, trialName)
             IN  IF exportName = <<>>
                 THEN [exports |-> withModule, returns |-> FALSE,
                       memoized |-> FALSE, value |-> <<>>]
                 ELSE [exports |-> MapSet(withModule, moduleUrl,
                                     MapSet(moduleExports, name, exportName)),
                       returns |-> TRUE, memoized |-> FALSE,
                       value |-> exportName]

----------------------------------------------------------------------------
(* Inputs of the registry model                                            *)

MaxResolves == 3

Bundles == {"B1", "B2"}

ModuleUrls ==
    { <<"x", "/", "a", ".", "j", "s">>,
      <<"y", "/", "a", ".", "j", "s">>,
      <<"b", "-", "c", ".", "d", ".", "j", "s">>,
      <<Apostrophe, "1", ".", "j", "s">> }

ExportNames ==
    { DefaultName, StarName, <<"a">>, <<"$", "a">>, <<"a", "$", "1">> }

NoCall == [kind |-> "none"]

InitRegistry ==
    /\ bundledExports = [b \in Bundles |-> EmptyMap]
    /\ lastCall = NoCall
    /\ hung = FALSE
    /\ resolves = 0

getOrSetBundleModuleExportName(bundle, moduleUrl, name) ==
    /\ ~hung
    /\ resolves < MaxResolves
    /\ LET r == GetOrSet(bundledExports[bundle], moduleUrl, name)
       IN  /\ bundledExports' = [bundledExports EXCEPT ![bundle] = r.exports]
           /\ hung' = ~r.returns
           /\ lastCall' = [kind |-> IF r.returns THEN "returned" ELSE "hung",
                           bundle |-> bundle, moduleUrl |-> moduleUrl,
                           name |-> name, memoized |-> r.memoized,
                           value |-> r.value]
    /\ resolves' = resolves + 1
    /\ UNCHANGED <<converterVars, reserveVars>>

NextRegistry ==
    \E bundle \in Bundles, moduleUrl \in ModuleUrls, name \in ExportNames :
        getOrSetBundleModuleExportName(bundle, moduleUrl, name)


\* A second set of inputs, for the trial names and the collision loop: one
\* bundle, modules whose file names begin with a replacement pattern
\* character, and export names ending in digits.
MaxNameResolves == 2

NameUrls ==
    { <<"x", "/", "a", ".", "j", "s">>,
      <<"y", "/", "a", ".", "j", "s">>,
      <<Apostrophe, "a", ".", "j", "s">>,
      <<"&", ".", "j", "s">> }

BigName == <<"x", "$">> \o TwoTo53

NameExports ==
    { DefaultName, StarName, <<"a">>, <<"$", "a">>,
      DefaultName \o DefaultSuffix,
      <<"x", "$", "9">>, <<"f", "o", "o", "2">>, BigName }

resolveName(moduleUrl, name) ==
    /\ resolves < MaxNameResolves
    /\ getOrSetBundleModuleExportName("B1", moduleUrl, name)

NextNames ==
    \E moduleUrl \in NameUrls, name \in NameExports :
        resolveName(moduleUrl, name)

\* A third set of inputs, for the order of the suffixes: three modules with
\* one file name in one bundle, and an export name that is itself the first
\* suffixed form of another
MaxSuffixResolves == 3

SuffixUrls ==
    { <<"x", "/", "a", ".", "j", "s">>,
      <<"y", "/", "a", ".", "j", "s">>,
      <<"z", "/", "a", ".", "j", "s">> }

SuffixNames == { <<"a">>, <<"a", "$", "1">> }

resolveSuffix(moduleUrl, name) ==
    /\ resolves < MaxSuffixResolves
    /\ getOrSetBundleModuleExportName("B1", moduleUrl, name)

NextSuffix ==
    \E moduleUrl \in SuffixUrls, name \in SuffixNames :
        resolveSuffix(moduleUrl, name)

----------------------------------------------------------------------------
(* Export names of a module: getModuleExportNames                          *)

\* Nodes of the Babel syntax tree, as far as named exports need them
Null == [type |-> "null"]

Expression == [type |-> "Expression"]

Identifier(name) == [type |-> "Identifier", name |-> name]

ArrayPattern(elements) == [type |-> "ArrayPattern", elements |-> elements]

ObjectPattern(properties) ==
    [type |-> "ObjectPattern", properties |-> properties]

ObjectProperty(key, value) ==
    [type |-> "ObjectProperty", key |-> key, value |-> value]

AssignmentPattern(left, right) ==
    [type |-> "AssignmentPattern", left |-> left, right |-> right]

RestElement(argument) == [type |-> "RestElement", argument |-> argument]

VariableDeclarator(id, init) ==
    [type |-> "VariableDeclarator", id |-> id, init |-> init]

VariableDeclaration(declarations) ==
    [type |-> "VariableDeclaration", declarations |-> declarations]

FunctionDeclaration(id) == [type |-> "FunctionDeclaration", id |-> id]

ClassDeclaration(id) == [type |-> "ClassDeclaration", id |-> id]

ExportSpecifier(local, exported) ==
    [type |-> "ExportSpecifier", local |-> local, exported |-> exported]

ExportNamedDeclaration(specifiers, declaration) ==
    [type |-> "ExportNamedDeclaration", specifiers |-> specifiers,
     declaration |-> declaration]

ExportDefaultDeclaration(declaration) ==
    [type |-> "ExportDefaultDeclaration", declaration |-> declaration]

Program(body) == [type |-> "Program", body |-> body]

\* Lines 110-137, on the array of nodes
RECURSIVE getModuleExportIdentifiers(_)
getModuleExportIdentifiers(nodes) ==
    IF nodes = <<>> THEN <<>>
    ELSE LET node == nodes[1]
             identifiers ==
                 CASE node.type = "ArrayPattern" ->
                          getModuleExportIdentifiers(node.elements)
                   [] node.type \in {"ClassDeclaration", "FunctionDeclaration",
                                     "VariableDeclarator"} ->
                          getModuleExportIdentifiers(<<node.id>>)
                   [] node.type = "ExportSpecifier" ->
                          getModuleExportIdentifiers(<<node.exported>>)
                   [] node.type = "Identifier" -> <<node.name>>
                   [] node.type = "ObjectPattern" ->
                          getModuleExportIdentifiers(node.properties)
                   [] node.type = "ObjectProperty" ->
                          getModuleExportIdentifiers(<<node.value>>)
                   [] node.type = "VariableDeclaration" ->
                          getModuleExportIdentifiers(node.declarations)
                   [] OTHER -> <<>>
         IN  identifiers \o getModuleExportIdentifiers(Tail(nodes))

\* new Set(array), in insertion order
RECURSIVE NewSet(_)
NewSet(array) ==
    IF array = <<>> THEN <<>>
    ELSE LET front == NewSet(SubSeq(array, 1, Len(array) - 1))
             last == array[Len(array)]
         IN  IF last \in Range(front) THEN front ELSE front \o <<last>>

\* Lines 91-102: the names pushed on entering the ExportNamedDeclaration
\* statements of the module, in source order
RECURSIVE ExportedNamesOfStatements(_)
ExportedNamesOfStatements(body) ==
    IF body = <<>> THEN <<>>
    ELSE LET exportNode == body[1]
             pushed ==
                 IF exportNode.type = "ExportNamedDeclaration"
                 THEN getModuleExportIdentifiers(exportNode.specifiers)
                      \o getModuleExportIdentifiers(<<exportNode.declaration>>)
                 ELSE <<>>
         IN  pushed \o ExportedNamesOfStatements(Tail(body))

\* Lines 89-104
getModuleExportNames(node) == NewSet(ExportedNamesOfStatements(node.body))

\* The names a declaration or export specifier exports: the identifiers the
\* declaration binds, through every form of a binding pattern, and the
\* exported alias of a specifier
RECURSIVE BoundNames(_)
BoundNames(node) ==
    CASE node.type = "Identifier" -> {node.name}
      [] node.type = "ArrayPattern" ->
             UNION {BoundNames(node.elements[i]) : i \in DOMAIN node.elements}
      [] node.type = "ObjectPattern" ->
             UNION {BoundNames(node.properties[i]) :
                        i \in DOMAIN node.properties}
      [] node.type = "ObjectProperty" -> BoundNames(node.value)
      [] node.type = "AssignmentPattern" -> BoundNames(node.left)
      [] node.type = "RestElement" -> BoundNames(node.argument)
      [] node.type = "VariableDeclaration" ->
             UNION {BoundNames(node.declarations[i]) :
                        i \in DOMAIN node.declarations}
      [] node.type \in {"VariableDeclarator", "FunctionDeclaration",
                        "ClassDeclaration"} -> BoundNames(node.id)
      [] node.type = "ExportSpecifier" -> {node.exported.name}
      [] OTHER -> {}

\* The names exported by the named-export declarations of a module
NamedExports(node) ==
    UNION { IF node.body[i].type = "ExportNamedDeclaration"
            THEN BoundNames(node.body[i].declaration)
                 \cup UNION {BoundNames(node.body[i].specifiers[j]) :
                                j \in DOMAIN node.body[i].specifiers}
            ELSE {} :
            i \in DOMAIN node.body }

\* The modules the analyzer may hand back
Id(text) == Identifier(text)

Const(declarators) ==
    ExportNamedDeclaration(<<>>, VariableDeclaration(declarators))

ModuleAsts ==
    [ \* export const a = 1, {b, c: d} = obj;
      M1 |-> Program(<<
          Const(<< VariableDeclarator(Id(<<"a">>), Expression),
                   VariableDeclarator(
                       ObjectPattern(<<
                           ObjectProperty(Id(<<"b">>), Id(<<"b">>)),
                           ObjectProperty(Id(<<"c">>), Id(<<"d">>)) >>),
                       Expression) >>) >>),
      \* export {x as y};
      M2 |-> Program(<<
          ExportNamedDeclaration(
              <<ExportSpecifier(Id(<<"x">>), Id(<<"y">>))>>, Null) >>),
      \* export function f() {}  export class C {}
      \* export const [p, [q], , a] = arr;  export default 1;  export {a};
      M3 |-> Program(<<
          ExportNamedDeclaration(<<>>, FunctionDeclaration(Id(<<"f">>))),
          ExportNamedDeclaration(<<>>, ClassDeclaration(Id(<<"C">>))),
          Const(<< VariableDeclarator(
                       ArrayPattern(<< Id(<<"p">>),
                                       ArrayPattern(<<Id(<<"q">>)>>),
                                       Null,
                                       Id(<<"a">>) >>),
                       Expression) >>),
          ExportDefaultDeclaration(Expression),
          ExportNamedDeclaration(
              <<ExportSpecifier(Id(<<"a">>), Id(<<"a">>))>>, Null) >>),
      \* export const {a = 1} = obj;
      M4 |-> Program(<<
          Const(<< VariableDeclarator(
                       ObjectPattern(<<
                           ObjectProperty(Id(<<"a">>),
                               AssignmentPattern(Id(<<"a">>), Expression)) >>),
                       Expression) >>) >>),
      \* export const [a, ...rest] = arr;
      M5 |-> Program(<<
          Const(<< VariableDeclarator(
                       ArrayPattern(<< Id(<<"a">>),
                                       RestElement(Id(<<"r">>)) >>),
                       Expression) >>) >>),
      \* export {x as default, $mDefault};
      M6 |-> Program(<<
          ExportNamedDeclaration(
              << ExportSpecifier(Id(<<"x">>), Id(DefaultName)),
                 ExportSpecifier(Id(<<"$", "m">> \o DefaultSuffix),
                                 Id(<<"$", "m">> \o DefaultSuffix)) >>,
              Null) >>),
      \* export const x$9007199254740992 = 1, a = 2;
      M7 |-> Program(<<
          Const(<< VariableDeclarator(Id(BigName), Expression),
                   VariableDeclarator(Id(<<"a">>), Expression) >>) >>) ]

Modules == DOMAIN ModuleAsts

----------------------------------------------------------------------------
(* The reservation pass: reserveBundleModuleExportNames                    *)

MaxSweepResolves == 2

\* [...manifest.bundles], in the order of the map
ManifestOrder == <<"B1", "B2">>

MUrl == <<"m", ".", "j", "s">>

NUrl == <<"n", ".", "j", "s">>

OUrl == <<"o", ".", "j", "s">>

\* The manifests of the model: the first bundle is an es6-module bundle that
\* holds or does not hold the module of its own URL; the second is of either
\* type
Manifests ==
    { [ B1 |-> [url |-> MUrl, type |-> "es6-module", files |-> files],
        B2 |-> [url |-> NUrl, type |-> type, files |-> {NUrl}] ] :
      files \in {{MUrl, OUrl}, {OUrl}},
      type \in {"es6-module", "html-fragment"} }

\* The modules the analysis may hold for the URLs of the bundles
Analyses == {[u \in {MUrl, NUrl} |-> IF u = MUrl THEN m ELSE "M2"] : m \in Modules}

\* The modules and names the conversion sweep resolves
SweepUrls == {MUrl, OUrl}

SweepNames == {<<"a">>, <<"d">>, BigName}

ReserveIdle ==
    [pc |-> "idle", es6ModuleBundles |-> <<>>, collected |-> EmptyMap]

InitReserveUnused ==
    /\ manifest = CHOOSE m \in Manifests : TRUE
    /\ analysis = CHOOSE a \in Analyses : TRUE
    /\ reserve = ReserveIdle

InitReserve ==
    /\ manifest \in Manifests
    /\ analysis \in Analyses
    /\ reserve = ReserveIdle

\* Mutant of ReserveBundle: only the first export name is resolved
ReserveBundleFirstOnly(exports, url, names) ==
    IF names = <<>> THEN [exports |-> exports, returns |-> TRUE]
    ELSE LET r == GetOrSet(exports, url, names[1])
         IN  [exports |-> r.exports, returns |-> r.returns]

\* Lines 156-159: getOrSetBundleModuleExportName for each export name of the
\* module, until a call does not return
RECURSIVE ReserveBundle(_, _, _)
ReserveBundle(exports, url, names) ==
    IF names = <<>> THEN [exports |-> exports, returns |-> TRUE]
    ELSE LET r == GetOrSet(exports, url, names[1])
         IN  IF r.returns THEN ReserveBundle(r.exports, url, Tail(names))
             ELSE [exports |-> r.exports, returns |-> FALSE]

\* The export names the pass collects for a bundle: those of the module of
\* the bundle's URL when the bundle holds it (lines 154-157)
CollectedNames(mf, an, bundle) ==
    IF mf[bundle].url \in mf[bundle].files
    THEN getModuleExportNames(ModuleAsts[an[mf[bundle].url]])
    ELSE <<>>

\* Lines 153-161: the loop over the es6-module bundles
RECURSIVE ReserveEach(_, _, _, _)
ReserveEach(allExports, mf, an, bundles) ==
    IF bundles = <<>> THEN [exports |-> allExports, returns |-> TRUE]
    ELSE LET bundle == bundles[1]
             r == ReserveBundle(allExports[bundle], mf[bundle].url,
                                CollectedNames(mf, an, bundle))
             now == [allExports EXCEPT ![bundle] = r.exports]
         IN  IF r.returns THEN ReserveEach(now, mf, an, Tail(bundles))
             ELSE [exports |-> now, returns |-> FALSE]

\* Lines 148-152: the es6-module bundles are selected, analyzer.analyze is
\* called and the pass is suspended at the await
reserveStart ==
    /\ reserve.pc = "idle"
    /\ LET IsEs6Module(bundle) == manifest[bundle].type = "es6-module"
       IN  reserve' = [reserve EXCEPT
                          !.pc = "awaiting",
                          !.es6ModuleBundles =
                              SelectSeq(ManifestOrder, IsEs6Module)]
    /\ UNCHANGED <<registryVars, converterVars, manifest, analysis>>

\* Lines 152-161: the analysis arrives and the loop runs to its end, or to
\* the call that never returns
reserveResume ==
    /\ reserve.pc = "awaiting"
    /\ ~hung
    /\ LET r == ReserveEach(bundledExports, manifest, analysis,
                            reserve.es6ModuleBundles)
       IN  /\ bundledExports' = r.exports
           /\ hung' = ~r.returns
           /\ reserve' = [reserve EXCEPT
                  !.pc = IF r.returns THEN "done" ELSE "hung",
                  !.collected =
                      [b \in Range(reserve.es6ModuleBundles) |->
                          CollectedNames(manifest, analysis, b)]]
    /\ UNCHANGED <<lastCall, resolves, converterVars, manifest, analysis>>

\* Line 152: analyzer.analyze rejects and the pass ends with that failure
reserveAnalysisFails ==
    /\ reserve.pc = "awaiting"
    /\ reserve' = [reserve EXCEPT !.pc = "failed"]
    /\ UNCHANGED <<registryVars, converterVars, manifest, analysis>>

\* A getOrSetBundleModuleExportName call of the conversion sweep
sweepResolve(bundle, moduleUrl, name) ==
    /\ resolves < MaxSweepResolves
    /\ getOrSetBundleModuleExportName(bundle, moduleUrl, name)

NextReserve ==
    \/ reserveStart
    \/ reserveResume
    \/ reserveAnalysisFails
    \/ \E bundle \in Bundles, moduleUrl \in SweepUrls, name \in SweepNames :
          sweepResolve(bundle, moduleUrl, name)

----------------------------------------------------------------------------
(* ProjectConverter                                                        *)

\* Lines 189-194
excludeFromResults ==
    { "shadycss/entrypoints/apply-shim.js",
      "bower_components/shadycss/entrypoints/apply-shim.js",
      "shadycss/entrypoints/custom-style-interface.js",
      "bower_components/shadycss/entrypoints/custom-style-interface.js" }

\* The value `undefined` of ConversionResult.output and of a getResults entry
Undefined == "<undefined>"

\* The documents of the analysed project
Documents == {"d1", "d2", "d3", "d4", "d5", "d6"}

\* document.kinds
DocumentKinds ==
    [ d1 |-> {"html-document"}, d2 |-> {"html-document"},
      d3 |-> {"html-document"}, d4 |-> {"js-document"},
      d5 |-> {"html-document"}, d6 |-> {"html-document"} ]

\* urlHandler.getDocumentUrl(document)
getDocumentUrl ==
    [ d1 |-> "a.html", d2 |-> "b.html", d3 |-> "index.html",
      d4 |-> "lib.js", d5 |-> "gone.html", d6 |-> "bad.html" ]

\* The ProjectScanner's classification of a scanned document; d5 is in the
\* document graph but the scan yields no entry for it
ScanType ==
    [ d1 |-> "js-module", d2 |-> "delete-file", d3 |-> "html-document",
      d4 |-> "js-module", d5 |-> "none", d6 |-> "js-module" ]

\* The documents on which the DocumentConverter throws instead of returning
\* records
RewritingFails == {"d6"}

\* scanner.getPackageDocuments(matchPackageName), in iteration order
PackageDocuments ==
    [ p1 |-> <<"d1", "d5", "d2">>, p2 |-> <<"d2", "d3">> ]

Packages == DOMAIN PackageDocuments

\* scanner.getResults().files, given the documents scanned so far
ScanFiles(scannedDocs) ==
    LET known == {d \in scannedDocs : ScanType[d] # "none"}
    IN  [u \in {getDocumentUrl[d] : d \in known} |->
            ScanType[CHOOSE d \in known : getDocumentUrl[d] = u]]

ConversionResult(originalUrl, convertedFilePath, deleteOriginal, output) ==
    [ originalUrl |-> originalUrl, convertedFilePath |-> convertedFilePath,
      deleteOriginal |-> deleteOriginal, output |-> output ]

\* What the DocumentConverter may produce for each document of the project:
\* convertJsModule yields one or more records, each under its own original
\* URL; convertTopLevelHtmlDocument yields one; createDeleteResult yields a
\* record without output and with the delete flag set.
Projects ==
    { [ d1 |-> <<ConversionResult("a.html", path, del, out)>> \o extra,
        d2 |-> <<ConversionResult("b.html", "b.js", TRUE, Undefined)>>,
        d3 |-> <<ConversionResult("index.html", "index.html", del3, "I")>>,
        d4 |-> <<ConversionResult("lib.js", "lib.js", FALSE, "L")>>,
        d5 |-> <<>>,
        d6 |-> <<>> ] :
      path \in {"a.js", "a.html", "b.html"},
      del \in BOOLEAN,
      out \in {"A", Undefined},
      del3 \in BOOLEAN,
      extra \in { <<>>,
                  <<ConversionResult("shadycss/entrypoints/apply-shim.js",
                                     "shadycss/entrypoints/apply-shim.js",
                                     TRUE, "X")>> } }

\* this.results.set(newModule.originalUrl, newModule) on a Map kept as the
\* sequence of its values in insertion order
RECURSIVE CacheSet(_, _)
CacheSet(cache, record) ==
    IF cache = <<>> THEN <<record>>
    ELSE IF cache[1].originalUrl = record.originalUrl
         THEN <<record>> \o Tail(cache)
         ELSE <<cache[1]>> \o CacheSet(Tail(cache), record)

\* Mutant of CacheSetAll: only the first record is stored
CacheSetFirstOnly(cache, records) ==
    IF records = <<>> THEN cache ELSE CacheSet(cache, records[1])

RECURSIVE CacheSetAll(_, _)
CacheSetAll(cache, records) ==
    IF records = <<>> THEN cache
    ELSE CacheSetAll(CacheSet(cache, records[1]), Tail(records))

RECURSIVE SumCalls(_, _)
SumCalls(calls, docs) ==
    IF docs = {} THEN 0
    ELSE LET d == CHOOSE x \in docs : TRUE
         IN  calls[d] + SumCalls(calls, docs \ {d})

TotalCalls(calls) == SumCalls(calls, Documents)

NoError == [kind |-> "none", url |-> ""]

\* A record of the project as the object a DocumentConverter call returns: a
\* new object on every call (id is the serial number of the call)
NewModule(shape, serial) ==
    [ originalUrl |-> shape.originalUrl,
      convertedFilePath |-> shape.convertedFilePath,
      deleteOriginal |-> shape.deleteOriginal,
      output |-> shape.output,
      id |-> serial ]

\* documentConverter.convertJsModule(): one or more records
convertJsModule(proj, document, serial) ==
    [i \in 1..Len(proj[document]) |-> NewModule(proj[document][i], serial)]

\* documentConverter.convertTopLevelHtmlDocument(): one record
convertTopLevelHtmlDocument(proj, document, serial) ==
    NewModule(proj[document][1], serial)

\* documentConverter.createDeleteResult(): one record
createDeleteResult(proj, document, serial) ==
    NewModule(proj[document][1], serial)

\* Lines 243-246: console.assert on a falsy value throws on runtimes where it
\* is an assertion (Node.js before 10) and only logs elsewhere
AssertThrows(rt, document) ==
    rt = "assert-throws" /\ "html-document" \notin DocumentKinds[document]

\* scanResults.files.get(documentUrl) is there (lines 254-255)
KnowsFile(files, documentUrl) == documentUrl \in DOMAIN files

\* One call of convertDocument (lines 242-275) on the converter state
\* st = [scanned, results, convCalls, error]
ConvertDocument(st, rt, proj, document) ==
    IF AssertThrows(rt, document)
    THEN [st EXCEPT !.error = [kind |-> "assertion", url |-> ""]]
    ELSE LET nowScanned == st.scanned \cup {document}
             files == ScanFiles(nowScanned)
             documentUrl == getDocumentUrl[document]
         IN  IF ~KnowsFile(files, documentUrl)
             THEN [st EXCEPT !.scanned = nowScanned,
                             !.error = [kind |-> "not-found", url |-> documentUrl]]
             ELSE IF document \in RewritingFails
             THEN [ scanned |-> nowScanned,
                    results |-> st.results,
                    convCalls |-> [st.convCalls EXCEPT ![document] = @ + 1],
                    error |-> [kind |-> "rewriting-failed", url |-> documentUrl] ]
             ELSE LET serial == TotalCalls(st.convCalls) + 1
                      scanResult == files[documentUrl]
                  IN  [ scanned |-> nowScanned,
                        results |->
                            IF scanResult = "js-module"
                            THEN CacheSetAll(st.results,
                                     convertJsModule(proj, document, serial))
                            ELSE IF scanResult = "html-document"
                            THEN CacheSet(st.results,
                                     convertTopLevelHtmlDocument(proj, document,
                                                                 serial))
                            ELSE IF scanResult = "delete-file"
                            THEN CacheSet(st.results,
                                     createDeleteResult(proj, document, serial))
                            ELSE st.results,
                        convCalls |-> [st.convCalls EXCEPT ![document] = @ + 1],
                        error |-> NoError ]

\* Mutant of ConvertEach: a failing document is skipped and the loop goes on
RECURSIVE ConvertEachSkipping(_, _, _, _)
ConvertEachSkipping(st, rt, proj, documents) ==
    IF documents = <<>> THEN st
    ELSE LET next == ConvertDocument(st, rt, proj, documents[1])
             rest == ConvertEachSkipping([next EXCEPT !.error = NoError],
                                         rt, proj, Tail(documents))
         IN  IF next.error.kind # "none" /\ rest.error.kind = "none"
             THEN [rest EXCEPT !.error = next.error]
             ELSE rest

\* The loop of lines 233-235: it ends at the first convertDocument that throws
RECURSIVE ConvertEach(_, _, _, _)
ConvertEach(st, rt, proj, documents) ==
    IF documents = <<>> THEN st
    ELSE LET next == ConvertDocument(st, rt, proj, documents[1])
         IN  IF next.error.kind # "none" THEN next
             ELSE ConvertEach(next, rt, proj, Tail(documents))

\* Mutant of ApplyRecord: no exclusion test
ApplyRecordNoExclusion(map, record) ==
    LET deleted == IF record.deleteOriginal
                   THEN MapSet(map, record.originalUrl, Undefined) ELSE map
    IN  IF record.output # Undefined
        THEN MapSet(deleted, record.convertedFilePath, record.output)
        ELSE deleted

\* Mutant of ApplyRecord: the content entry is written before the tombstone
ApplyRecordContentFirst(map, record) ==
    IF record.originalUrl \in excludeFromResults THEN map
    ELSE LET written == IF record.output # Undefined
                        THEN MapSet(map, record.convertedFilePath, record.output)
                        ELSE map
         IN  IF record.deleteOriginal
             THEN MapSet(written, record.originalUrl, Undefined)
             ELSE written

\* Mutant of ApplyRecord: a tombstone for every record, whatever its flag
ApplyRecordAlwaysDeletes(map, record) ==
    IF record.originalUrl \in excludeFromResults THEN map
    ELSE LET deleted == MapSet(map, record.originalUrl, Undefined)
         IN  IF record.output # Undefined
             THEN MapSet(deleted, record.convertedFilePath, record.output)
             ELSE deleted

\* The body of the loop of getResults (lines 289-299)
ApplyRecord(map, record) ==
    IF record.originalUrl \in excludeFromResults THEN map
    ELSE LET deleted == IF record.deleteOriginal
                        THEN MapSet(map, record.originalUrl, Undefined) ELSE map
         IN  IF record.output # Undefined
             THEN MapSet(deleted, record.convertedFilePath, record.output)
             ELSE deleted

RECURSIVE ApplyRecords(_, _)
ApplyRecords(map, cache) ==
    IF cache = <<>> THEN map
    ELSE ApplyRecords(ApplyRecord(map, cache[1]), Tail(cache))

\* getResults (lines 282-302)
GetResults(cache) == ApplyRecords(EmptyMap, cache)

----------------------------------------------------------------------------
(* ProjectConverter: state and calls                                       *)

MaxConversions == 3

NoOp == [op |-> "none"]

InitConverter ==
    /\ runtime \in {"assert-throws", "assert-logs"}
    /\ project \in Projects
    /\ scanned = {}
    /\ results = <<>>
    /\ convCalls = [d \in Documents |-> 0]
    /\ lastOp = NoOp

ConverterState ==
    [ scanned |-> scanned, results |-> results, convCalls |-> convCalls,
      error |-> NoError ]

convertDocument(document) ==
    /\ TotalCalls(convCalls) < MaxConversions
    /\ LET st == ConvertDocument(ConverterState, runtime, project, document)
       IN  /\ scanned' = st.scanned
           /\ results' = st.results
           /\ convCalls' = st.convCalls
           /\ lastOp' = [op |-> "convertDocument", arg |-> document,
                         error |-> st.error]
    /\ UNCHANGED <<runtime, project, registryVars, reserveVars>>

convertPackage(matchPackageName) ==
    /\ TotalCalls(convCalls) + Len(PackageDocuments[matchPackageName])
           <= MaxConversions
    /\ LET documents == PackageDocuments[matchPackageName]
           scannedPackage ==
               [ConverterState EXCEPT !.scanned = @ \cup Range(documents)]
           st == ConvertEach(scannedPackage, runtime, project, documents)
       IN  /\ scanned' = st.scanned
           /\ results' = st.results
           /\ convCalls' = st.convCalls
           /\ lastOp' = [op |-> "convertPackage", arg |-> matchPackageName,
                         error |-> st.error]
    /\ UNCHANGED <<runtime, project, registryVars, reserveVars>>

\* Mutant of getResults: the cache is emptied once the map is built
getResultsDraining ==
    /\ lastOp' = [op |-> "getResults", value |-> GetResults(results)]
    /\ results' = <<>>
    /\ UNCHANGED <<runtime, project, scanned, convCalls, registryVars,
                   reserveVars>>

getResults ==
    /\ lastOp' = [op |-> "getResults", value |-> GetResults(results)]
    /\ UNCHANGED <<runtime, project, scanned, results, convCalls, registryVars,
                   reserveVars>>

NextConverter ==
    \/ \E document \in Documents : convertDocument(document)
    \/ \E matchPackageName \in Packages : convertPackage(matchPackageName)
    \/ getResults

----------------------------------------------------------------------------
(* Specifications                                                          *)

\* The registry alone, on a converter that is never used
\* A converter that is never used
InitConverterUnused ==
    /\ runtime = "assert-logs"
    /\ project = CHOOSE p \in Projects : TRUE
    /\ scanned = {}
    /\ results = <<>>
    /\ convCalls = [d \in Documents |-> 0]
    /\ lastOp = NoOp

Init == InitRegistry /\ InitConverterUnused /\ InitReserveUnused

Spec == Init /\ [][NextRegistry]_vars

\* The converter alone, on a registry that is never used
InitConv == InitRegistry /\ InitConverter /\ InitReserveUnused

SpecConv == InitConv /\ [][NextConverter]_vars

SpecNames == Init /\ [][NextNames]_vars

SpecSuffix == Init /\ [][NextSuffix]_vars

\* The reservation pass and the calls of the conversion sweep
InitRes == InitRegistry /\ InitConverterUnused /\ InitReserve

SpecReserve == InitRes /\ [][NextReserve]_vars

----------------------------------------------------------------------------
(* Properties of the export name registry                                  *)

\* The (moduleUrl, exportName) pairs recorded in a bundle
Recorded(bundle) ==
    UNION { {<<m, n>> : n \in DOMAIN bundledExports[bundle][m]} :
              m \in DOMAIN bundledExports[bundle] }

\* C1: within one bundle, two distinct recorded (moduleUrl, exportName) pairs
\* never hold the same assigned name.
C1_UniquePerBundle ==
    \A b \in Bundles : \A p, q \in Recorded(b) :
        p # q => bundledExports[b][p[1]][p[2]] # bundledExports[b][q[1]][q[2]]

\* C1 witness: a bundle holds two distinct pairs whose trial names are equal,
\* so that the second one was given a suffix.
C1_Witness ==
    \E b \in Bundles : \E p, q \in Recorded(b) :
        /\ p # q
        /\ TrialName(p[1], p[2]) = TrialName(q[1], q[2])

\* C2: an entry recorded for (bundle, moduleUrl, exportName) is still there,
\* unchanged, after every step, and a call with the same three arguments
\* returns the recorded name.
C2_Memoized ==
    [][\A b \in Bundles : \A p \in Recorded(b) :
          /\ p[1] \in DOMAIN bundledExports'[b]
          /\ p[2] \in DOMAIN bundledExports'[b][p[1]]
          /\ bundledExports'[b][p[1]][p[2]] = bundledExports[b][p[1]][p[2]]
          /\ (/\ lastCall'.kind = "returned"
              /\ lastCall'.bundle = b
              /\ lastCall'.moduleUrl = p[1]
              /\ lastCall'.name = p[2])
             => lastCall'.value = bundledExports[b][p[1]][p[2]]]_vars

\* C2 witness: a call found its memoized entry in a bundle where other pairs
\* have been resolved too.
C2_Witness ==
    /\ lastCall.kind = "returned"
    /\ lastCall.memoized
    /\ Cardinality(Recorded(lastCall.bundle)) >= 2

\* A bare identifier: characters of [A-Za-z0-9_$] only, not starting with a
\* digit
IsBareIdentifier(s) ==
    /\ s # <<>>
    /\ \A i \in DOMAIN s : s[i] \in WordChar \cup {"$"}
    /\ s[1] \notin Digit

\* C3: every name a call returns is a bare identifier.
C3_ReturnsIdentifier ==
    lastCall.kind = "returned" => IsBareIdentifier(lastCall.value)

----------------------------------------------------------------------------
(* Properties of the ProjectConverter                                      *)

\* C4: an entry of the results cache is never replaced or changed by a later
\* call: the object cached under a URL stays the one cached first.
C4_WriteOnce ==
    [][\A i \in DOMAIN results :
          \E j \in DOMAIN results' : results'[j] = results[i]]_vars

\* C5: the rewriting capability runs at most once per document.
C5_ConvertedOnce ==
    \A d \in Documents : convCalls[d] <= 1

IsExcluded(record) == record.originalUrl \in excludeFromResults

\* The cache without its i-th record
Without(cache, i) ==
    SubSeq(cache, 1, i - 1) \o SubSeq(cache, i + 1, Len(cache))

\* The records of the cache that are not excluded and emit an entry at path
Emitters(cache, path) ==
    { i \in DOMAIN cache :
        /\ ~IsExcluded(cache[i])
        /\ \/ cache[i].deleteOriginal /\ cache[i].originalUrl = path
           \/ cache[i].output # Undefined /\ cache[i].convertedFilePath = path }

\* C6: an excluded record contributes nothing to the map getResults returns:
\* the map is the one returned without the record, and neither of the record's
\* paths is a key unless a record that is not excluded emits it.
C6_ExcludedEmitNothing ==
    lastOp.op = "getResults" =>
        \A i \in DOMAIN results : IsExcluded(results[i]) =>
            /\ lastOp.value = GetResults(Without(results, i))
            /\ \A path \in {results[i].originalUrl, results[i].convertedFilePath} :
                  path \in DOMAIN lastOp.value => Emitters(results, path) # {}

\* C6 witness: getResults ran on a cache holding an excluded record that has
\* output content and its delete flag set.
C6_Witness ==
    /\ lastOp.op = "getResults"
    /\ \E i \in DOMAIN results :
          /\ IsExcluded(results[i])
          /\ results[i].deleteOriginal
          /\ results[i].output # Undefined

\* C7 as claimed: the original path of every record marked for deletion and
\* not excluded is mapped to absent, whatever else the cache holds.
C7_TombstoneAlways ==
    lastOp.op = "getResults" =>
        \A i \in DOMAIN results :
            (~IsExcluded(results[i]) /\ results[i].deleteOriginal) =>
                /\ results[i].originalUrl \in DOMAIN lastOp.value
                /\ lastOp.value[results[i].originalUrl] = Undefined

\* The records at or after position i, not excluded, whose output content is
\* written to the original path of record i
Overwriters(cache, i) ==
    { j \in DOMAIN cache :
        /\ j >= i
        /\ ~IsExcluded(cache[j])
        /\ cache[j].output # Undefined
        /\ cache[j].convertedFilePath = cache[i].originalUrl }

Max(S) == CHOOSE x \in S : \A y \in S : y <= x

\* C7 amended: the original path of every record marked for deletion and not
\* excluded is a key of the map; it is mapped to absent unless the record
\* itself or a record later in the cache writes output content to that path,
\* and then to the content of the last record that does.
C7_TombstoneUnlessOverwritten ==
    lastOp.op = "getResults" =>
        \A i \in DOMAIN results :
            (~IsExcluded(results[i]) /\ results[i].deleteOriginal) =>
                /\ results[i].originalUrl \in DOMAIN lastOp.value
                /\ lastOp.value[results[i].originalUrl] =
                     IF Overwriters(results, i) = {} THEN Undefined
                     ELSE results[Max(Overwriters(results, i))].output

\* C7 witness: getResults ran on a cache with one deleted record whose path a
\* record writes to, and one deleted record whose path nobody writes to.
C7_Witness ==
    /\ lastOp.op = "getResults"
    /\ \E i, k \in DOMAIN results :
          /\ ~IsExcluded(results[i]) /\ results[i].deleteOriginal
          /\ Overwriters(results, i) # {}
          /\ ~IsExcluded(results[k]) /\ results[k].deleteOriginal
          /\ Overwriters(results, k) = {}

TombstoneKeys(map) == {k \in DOMAIN map : map[k] = Undefined}

ContentKeys(map) == {k \in DOMAIN map : map[k] # Undefined}

ConvertedDocuments == {d \in Documents : convCalls[d] > 0}

\* The keys of the map are exactly the paths that records emit, and every
\* value is absent or the output of a record written to that key
KeysAreEmitted(map, cache) ==
    /\ \A k \in DOMAIN map : Emitters(cache, k) # {}
    /\ \A i \in DOMAIN cache : ~IsExcluded(cache[i]) =>
          /\ cache[i].deleteOriginal => cache[i].originalUrl \in DOMAIN map
          /\ cache[i].output # Undefined =>
                cache[i].convertedFilePath \in DOMAIN map
    /\ \A k \in ContentKeys(map) :
          \E i \in Emitters(cache, k) :
              cache[i].convertedFilePath = k /\ cache[i].output = map[k]

\* Exactly one delete-file document and one js-module document were converted
OneDeletedOneModule(deleted, module) ==
    /\ deleted # module
    /\ ConvertedDocuments = {deleted, module}
    /\ ScanType[deleted] = "delete-file"
    /\ ScanType[module] = "js-module"

OneTombstoneOneContent(map) ==
    /\ Cardinality(TombstoneKeys(map)) = 1
    /\ Cardinality(ContentKeys(map)) = 1

\* C8 as claimed: the keys are exactly the emitted paths, and with one
\* delete-file document and one js-module document with output converted the
\* map has one tombstone and one content entry.  The claim is taken in the
\* case most favourable to it: the module yields one record that is not
\* excluded, with output, written to another path than the deleted document's.
C8_ExactEntries ==
    lastOp.op = "getResults" =>
        /\ KeysAreEmitted(lastOp.value, results)
        /\ \A deleted, module \in Documents :
              (/\ OneDeletedOneModule(deleted, module)
               /\ \E i \in DOMAIN project[module] :
                     /\ \A j \in DOMAIN project[module] :
                           j # i => IsExcluded(project[module][j])
                     /\ ~IsExcluded(project[module][i])
                     /\ project[module][i].output # Undefined
                     /\ project[module][i].convertedFilePath
                            # getDocumentUrl[deleted])
              => OneTombstoneOneContent(lastOp.value)

\* The js-module document yields one record that is not excluded; it has
\* output, is not marked for deletion, and is written to another path than the
\* deleted document's
PlainModule(deleted, module) ==
    \E i \in DOMAIN project[module] :
        /\ \A j \in DOMAIN project[module] :
              j # i => IsExcluded(project[module][j])
        /\ ~IsExcluded(project[module][i])
        /\ project[module][i].output # Undefined
        /\ ~project[module][i].deleteOriginal
        /\ project[module][i].convertedFilePath # getDocumentUrl[deleted]

\* C8 amended: the keys are exactly the emitted paths; with one delete-file
\* document and one js-module document converted the map has one tombstone and
\* one content entry when the js-module document yields a single record that
\* is not excluded, has output, is not marked for deletion and is written to
\* another path than the deleted document's.
C8_ExactEntriesPlainModule ==
    lastOp.op = "getResults" =>
        /\ KeysAreEmitted(lastOp.value, results)
        /\ \A deleted, module \in Documents :
              (OneDeletedOneModule(deleted, module) /\ PlainModule(deleted, module))
              => OneTombstoneOneContent(lastOp.value)

\* C8 witness: getResults ran after one delete-file document and one such
\* js-module document were converted.
C8_Witness ==
    /\ lastOp.op = "getResults"
    /\ \E deleted, module \in Documents :
          OneDeletedOneModule(deleted, module) /\ PlainModule(deleted, module)

\* C9: convertDocument on a document that is not an HTML document throws and
\* neither scans, converts nor writes to the cache.
C9_NonHtmlRejected ==
    [][(/\ lastOp'.op = "convertDocument"
        /\ "html-document" \notin DocumentKinds[lastOp'.arg])
       => /\ lastOp'.error.kind = "assertion"
          /\ scanned' = scanned
          /\ results' = results
          /\ convCalls' = convCalls]_vars

\* The position of the first document of the sequence without a classification,
\* 0 when every document has one
FirstUnclassified(documents) ==
    LET missing == {i \in DOMAIN documents : ScanType[documents[i]] = "none"}
    IN  IF missing = {} THEN 0 ELSE CHOOSE i \in missing : \A j \in missing : i <= j

\* C10: without a classification for the document's URL convertDocument throws
\* a not-found error carrying the URL and leaves the cache as it was;
\* convertPackage passes the error on and converts nothing from that document
\* onwards.
C10_NotFoundPropagates ==
    [][/\ (/\ lastOp'.op = "convertDocument"
           /\ ~AssertThrows(runtime, lastOp'.arg)
           /\ ScanType[lastOp'.arg] = "none")
          => /\ lastOp'.error =
                   [kind |-> "not-found", url |-> getDocumentUrl[lastOp'.arg]]
             /\ results' = results
             /\ convCalls' = convCalls
       /\ (/\ lastOp'.op = "convertPackage"
           /\ FirstUnclassified(PackageDocuments[lastOp'.arg]) # 0)
          => LET documents == PackageDocuments[lastOp'.arg]
                 k == FirstUnclassified(documents)
             IN  /\ lastOp'.error =
                       [kind |-> "not-found", url |-> getDocumentUrl[documents[k]]]
                 /\ \A j \in DOMAIN documents :
                       convCalls'[documents[j]] =
                           convCalls[documents[j]] + (IF j < k THEN 1 ELSE 0)
                 /\ \A i \in DOMAIN results' :
                       \/ \E j \in DOMAIN results : results[j] = results'[i]
                       \/ \E j \in 1..(k - 1) :
                             \E r \in Range(project[documents[j]]) :
                                 r.originalUrl = results'[i].originalUrl]_vars

\* C10 witness: convertPackage stopped with a not-found error after it had
\* converted a document and before it reached the next one.
C10_Witness ==
    /\ lastOp.op = "convertPackage"
    /\ lastOp.error.kind = "not-found"
    /\ lastOp.error.url = "gone.html"
    /\ convCalls["d1"] = 1
    /\ convCalls["d2"] = 0
    /\ results # <<>>

\* C11: a convertDocument call that fails leaves the results cache as it was,
\* and one that returns has put every record the DocumentConverter produced
\* for the document into the cache; the call is one step, so getResults sees
\* the cache before it or after it.
C11_AllOrNothing ==
    [][lastOp'.op = "convertDocument" =>
          /\ lastOp'.error.kind # "none" => results' = results
          /\ lastOp'.error.kind = "none" =>
                \A shape \in Range(project[lastOp'.arg]) :
                    \E j \in DOMAIN results' :
                        results'[j] = NewModule(shape, TotalCalls(convCalls) + 1)]_vars

\* C11 witness: the DocumentConverter failed on a document while the cache
\* held the two records of a document converted before.
C11_Witness ==
    /\ lastOp.op = "convertDocument"
    /\ lastOp.error.kind = "rewriting-failed"
    /\ Len(results) = 2
    /\ results[1].id = results[2].id

\* The record was produced by a conversion of a document converted so far
FromConvertedDocument(record) ==
    /\ record.id \in 1..TotalCalls(convCalls)
    /\ \E d \in ConvertedDocuments : \E shape \in Range(project[d]) :
          record = NewModule(shape, record.id)

\* C20: getResults is read-only: a getResults step leaves the results cache
\* (and the rest of the converter's state) unchanged, a getResults call that
\* directly follows another returns an equal map, and the returned map holds
\* only keys and outputs of cached records, each produced by a conversion of
\* a document converted before the call.
C20_GetResultsReadOnly ==
    [][lastOp'.op = "getResults" =>
          /\ results' = results
          /\ scanned' = scanned
          /\ convCalls' = convCalls
          /\ lastOp.op = "getResults" => lastOp'.value = lastOp.value
          /\ KeysAreEmitted(lastOp'.value, results)
          /\ \A i \in DOMAIN results : FromConvertedDocument(results[i])]_vars

\* C20 witness: getResults returned a map with a tombstone and a content entry
\* from a cache of two records.
C20_Witness ==
    /\ lastOp.op = "getResults"
    /\ Len(results) = 2
    /\ TombstoneKeys(lastOp.value) # {}
    /\ ContentKeys(lastOp.value) # {}

\* The pairs recorded in the bundle whose trial name is the given one
SameTrial(bundle, trialName) ==
    {p \in Recorded(bundle) : TrialName(p[1], p[2]) = trialName}

\* The trial name followed by `$i`; the trial name itself for i = 0
Suffixed(trialName, i) ==
    IF i = 0 THEN trialName ELSE trialName \o <<"$">> \o NumberToString(i)

\* A pair with another trial name holds the trial name or one of its first k
\* suffixed forms
Obstructed(bundle, trialName, k) ==
    \E p \in Recorded(bundle) \ SameTrial(bundle, trialName) :
        \E j \in 0..k :
            bundledExports[bundle][p[1]][p[2]] = Suffixed(trialName, j)

\* The trial name was free when the first pair with that trial name was
\* resolved: nothing holds it, or a pair with that trial name does
InitiallyFree(bundle, trialName) ==
    IF SameTrial(bundle, trialName) = {}
    THEN IsFree(bundledExports[bundle], trialName)
    ELSE \E p \in SameTrial(bundle, trialName) :
            bundledExports[bundle][p[1]][p[2]] = trialName

\* C12 as stated: a call that resolves a new pair whose trial name T does not
\* end in `$<integer>`, in a bundle where T was initially free and k pairs with
\* trial name T were resolved before, receives T followed by `$k` (T itself
\* for k = 0).
C12_SuffixInRequestOrder ==
    [][(/\ lastCall'.kind = "returned"
        /\ ~lastCall'.memoized
        /\ resolves' = resolves + 1) =>
          LET b == lastCall'.bundle
              T == TrialName(lastCall'.moduleUrl, lastCall'.name)
              k == Cardinality(SameTrial(b, T))
          IN  (~HasCounterSuffix(T) /\ InitiallyFree(b, T)) =>
                  lastCall'.value = Suffixed(T, k)]_vars

\* C12 amended: the same, in a bundle where no pair with another trial name
\* holds T or one of T$1 .. T$k.
C12_SuffixInRequestOrderUnobstructed ==
    [][(/\ lastCall'.kind = "returned"
        /\ ~lastCall'.memoized
        /\ resolves' = resolves + 1) =>
          LET b == lastCall'.bundle
              T == TrialName(lastCall'.moduleUrl, lastCall'.name)
              k == Cardinality(SameTrial(b, T))
          IN  (~HasCounterSuffix(T) /\ ~Obstructed(b, T, k)) =>
                  lastCall'.value = Suffixed(T, k)]_vars

\* C12 witness: the third pair with one trial name was resolved in a bundle
\* that held nothing else, and received the trial name followed by `$2`.
C12_Witness ==
    /\ lastCall.kind = "returned"
    /\ ~lastCall.memoized
    /\ LET b == lastCall.bundle
           T == TrialName(lastCall.moduleUrl, lastCall.name)
       IN  /\ ~HasCounterSuffix(T)
           /\ Cardinality(SameTrial(b, T)) = 3
           /\ Recorded(b) = SameTrial(b, T)
           /\ lastCall.value = Suffixed(T, 2)

\* The pairs recorded in any bundle
RecordedAnywhere == UNION {Recorded(b) : b \in Bundles}

\* An export name that is a JavaScript identifier (of ASCII characters) and
\* neither "default" nor "*"
IsOrdinaryExportName(name) ==
    /\ name # <<>>
    /\ name \notin {DefaultName, StarName}
    /\ name[1] \in Lower \cup Upper \cup {"_", "$"}
    /\ \A i \in DOMAIN name : name[i] \in WordChar \cup {"$"}

\* The prefix of the module is inserted as it is written: the text after its
\* '$' does not begin with a character that, after a '$', String.replace
\* expands
LiteralPrefix(moduleUrl) ==
    LET prefix == moduleFileNameIdentifier(moduleUrl)
    IN  Len(prefix) < 2 \/ prefix[2] \notin {"&", Backquote, Apostrophe}

C14_LoopTerminates == lastCall.kind # "hung"

\* The candidate the increment rule names: the trailing integer of a name
\* ending in `$<integer>` incremented by one, `$1` appended otherwise
ExpectedNext(trialName) ==
    IF HasCounterSuffix(trialName)
    THEN LET d == TrailingDigits(trialName)
             n == Len(trialName)
         IN  SubSeq(trialName, 1, n - d)
             \o DecimalSucc(StripLeadingZeros(SubSeq(trialName, n - d + 1, n)))
    ELSE trialName \o <<"$", "1">>

\* C17: a call for a new pair whose trial name is taken in the bundle, while
\* the candidate named by the increment rule is free, returns that candidate.
C17_NextCandidate ==
    [][(resolves' = resolves + 1 /\ ~lastCall'.memoized) =>
          LET exports == bundledExports[lastCall'.bundle]
              T == TrialName(lastCall'.moduleUrl, lastCall'.name)
          IN  (~IsFree(exports, T) /\ IsFree(exports, ExpectedNext(T))) =>
                  /\ lastCall'.kind = "returned"
                  /\ lastCall'.value = ExpectedNext(T)]_vars

\* The (moduleUrl, exportName) pairs that have an entry in an export map
EntriesOf(exports) ==
    UNION { {<<m, n>> : n \in DOMAIN exports[m]} : m \in DOMAIN exports }

\* C19: a getOrSetBundleModuleExportName(bundle, moduleUrl, exportName) call
\* leaves every other bundle's export map as it was, leaves every entry of
\* the bundle other than (moduleUrl, exportName) as it was and adds no other
\* entry, and changes nothing at all when the triple was already resolved.
C19_OnlyTheCalledEntry ==
    [][resolves' = resolves + 1 =>
          LET b == lastCall'.bundle
              called == <<lastCall'.moduleUrl, lastCall'.name>>
              before == bundledExports[b]
              after == bundledExports'[b]
          IN  /\ \A other \in Bundles \ {b} :
                    bundledExports'[other] = bundledExports[other]
              /\ EntriesOf(after) \subseteq EntriesOf(before) \cup {called}
              /\ \A p \in EntriesOf(before) \ {called} :
                    /\ p \in EntriesOf(after)
                    /\ after[p[1]][p[2]] = before[p[1]][p[2]]
              /\ lastCall'.memoized => bundledExports' = bundledExports]_vars

\* C19 witness: a call added an entry to a bundle that already held an entry
\* of the same module, and the name it assigned is also assigned in the other
\* bundle.
C19_Witness ==
    /\ lastCall.kind = "returned"
    /\ ~lastCall.memoized
    /\ Cardinality(DOMAIN bundledExports[lastCall.bundle][lastCall.moduleUrl]) = 2
    /\ \E other \in Bundles \ {lastCall.bundle} :
          \E p \in EntriesOf(bundledExports[other]) :
              bundledExports[other][p[1]][p[2]] = lastCall.value

\* The es6-module bundles that hold the module of their own URL
ReservingBundles ==
    {b \in Bundles : /\ manifest[b].type = "es6-module"
                     /\ manifest[b].url \in manifest[b].files}

\* C16: the names getModuleExportNames collects for a module are exactly the
\* names its named-export declarations export, each once.
C16_ExactExportNames ==
    \A b \in DOMAIN reserve.collected :
        b \in ReservingBundles =>
            /\ Range(reserve.collected[b])
                   = NamedExports(ModuleAsts[analysis[manifest[b].url]])
            /\ Cardinality(Range(reserve.collected[b]))
                   = Len(reserve.collected[b])

\* A name made only of [A-Za-z0-9_$] characters
IsPlainName(name) == \A i \in DOMAIN name : name[i] \in WordChar \cup {"$"}

\* The trial names of the names, for the module, are pairwise distinct
DistinctTrials(url, names) ==
    \A i, j \in DOMAIN names :
        i # j => TrialName(url, names[i]) # TrialName(url, names[j])

\* The step in which the pass resumes after the await and completes
PassCompletes == reserve.pc = "awaiting" /\ reserve'.pc = "done"

\* The pass has assigned the name itself to the export of the bundle's module
AssignedItself(b, name) ==
    LET url == manifest[b].url
        after == bundledExports'[b]
    IN  /\ url \in DOMAIN after
        /\ name \in DOMAIN after[url]
        /\ after[url][name] = name

\* A call of the sweep, after the pass, for a new pair of another module of a
\* reserving bundle, whose trial name the bundle's own module holds
LaterCollision ==
    /\ reserve.pc = "done"
    /\ resolves' = resolves + 1
    /\ ~lastCall'.memoized
    /\ lastCall'.bundle \in ReservingBundles
    /\ LET b == lastCall'.bundle
           url == manifest[b].url
           T == TrialName(lastCall'.moduleUrl, lastCall'.name)
       IN  /\ lastCall'.moduleUrl # url
           /\ url \in DOMAIN bundledExports[b]
           /\ \E n \in DOMAIN bundledExports[b][url] :
                 bundledExports[b][url][n] = T

\* The call returned its trial name with a `$<integer>` suffix
ReceivedSuffixed ==
    /\ HasCounterSuffix(lastCall'.value)
    /\ lastCall'.value # TrialName(lastCall'.moduleUrl, lastCall'.name)

C18_NothingReservedBeforeAwait ==
    [][/\ (reserve' # reserve /\ reserve'.pc \in {"awaiting", "failed"}) =>
              bundledExports' = bundledExports
       /\ (reserve.pc = "awaiting" /\ reserve'.pc \in {"done", "hung"}) =>
              \A b \in ReservingBundles :
                  LET url == manifest[b].url
                      before == bundledExports[b]
                      after == bundledExports'[b]
                  IN  \A name \in Range(CollectedNames(manifest, analysis, b)) :
                          (/\ <<url, name>> \notin EntriesOf(before)
                           /\ \E p \in EntriesOf(before) :
                                 /\ p[1] # url
                                 /\ before[p[1]][p[2]] = TrialName(url, name)) =>
                              /\ reserve'.pc = "done"
                              /\ <<url, name>> \in EntriesOf(after)
                              /\ after[url][name] # TrialName(url, name)
                              /\ HasCounterSuffix(after[url][name])
      ]_vars

====
